---- MODULE Spec2Model ----
EXTENDS Naturals, Sequences, FiniteSets, TLC

(***************************************************************************)
(* Model of src/decision_tree.js: class DecisionTree.                      *)
(*                                                                         *)
(* JavaScript objects are records whose DOMAIN is the set of properties    *)
(* that are set; a missing property reads as undefined.  Strings that the  *)
(* code concatenates or splits are sequences of tokens; a step identifier  *)
(* is one token.  An inline style.display is "" (never set or removed),    *)
(* "block" or "none".                                                      *)
(***************************************************************************)

VARIABLES
    config,         \* this.config: {id, first_step, steps}
    storage,        \* this.storage
    localStorage,   \* the localStorage item stored under the tree's id
    dom,            \* the part of the document the class reads and writes
    tracked,        \* paths handed to trackGA by the handler that ran last
    phase,          \* position of the constructor: boot, loaded, ready
    last,           \* the handler that ran last and its arguments
    old,            \* storage, localStorage, dom before that handler ran
    answered,       \* this.storage before the latest Answer, kept while that
                    \* Answer or the Back that follows it is the last handler
    fIn,            \* input of an isolated evaluation of filter()
    fOut            \* its result

vars == <<config, storage, localStorage, dom, tracked, phase, last, old, answered,
          fIn, fOut>>

----------------------------------------------------------------------------
(* Bounds of the model *)

MaxHist == 4          \* longest history an Answer is applied to, plus one
MaxStored == 2        \* longest history of a hand-made localStorage record
MaxFilterIds == 3     \* most identifiers in one filter expression
MaxFilterHist == 2    \* longest history of an isolated filter evaluation

----------------------------------------------------------------------------
(* The document *)

Steps == <<"a", "b", "c">>
Ghost == "x"
Undefined == "undefined"
TreeId == "tree"
NoKey == ""
DataKeys == {NoKey, "k"}

Range(seq) == {seq[i] : i \in DOMAIN seq}
StepSet == Range(Steps)
Targets == StepSet \cup {Ghost}

\* Steps whose first .step__answer has text: they ask a further question.
StepsWithAnswers == {"a", "b"}
\* Steps carrying the data-show-summary attribute.
StepsShowSummary == {"b"}
\* Steps holding a .step__info element.
StepsWithInfo == {"b", "c"}

\* The li elements of .decision-tree__summary with their filter attributes.
Entries ==
    << [pass |-> <<"a", " ", "b">>],
       [pass |-> <<"a">>, stop |-> <<"c">>],
       [stop |-> <<"b", " ", "c">>] >>

EmptyObj == [k \in {} |-> ""]
Has(obj, k) == k \in DOMAIN obj
Put(obj, k, v) == [f \in (DOMAIN obj) \cup {k} |-> IF f = k THEN v ELSE obj[f]]

InitDom(ids) ==
    [ ids         |-> ids,
      tree        |-> "",
      footer      |-> "",
      steps       |-> [st \in Range(ids) |-> ""],
      summary     |-> "",
      infos       |-> [exists |-> FALSE, html |-> <<>>],
      li          |-> [i \in DOMAIN Entries |-> ""],
      bound       |-> FALSE,
      initialized |-> FALSE ]

----------------------------------------------------------------------------
(* The object and the document as one value that the methods transform.    *)
(* threw: an exception is propagating; saved: _saveStorage has run in this *)
(* handler; failAt: the trackGA call of this handler that throws (0: none).*)

Machine(failAt) ==
    [ config |-> config, storage |-> storage, localStorage |-> localStorage,
      dom |-> dom, tracked |-> <<>>, threw |-> FALSE, saved |-> FALSE,
      failAt |-> failAt ]

Snapshot == [storage |-> storage, localStorage |-> localStorage, dom |-> dom]

Active(s) == IF Has(s.storage, "active") THEN s.storage.active ELSE Undefined

----------------------------------------------------------------------------
(* String operations of the filter code *)

\* String.prototype.split with a one-token separator.
RECURSIVE split(_, _)
split(str, sep) ==
    IF \E i \in DOMAIN str : str[i] = sep
    THEN LET i == CHOOSE k \in DOMAIN str :
                      str[k] = sep /\ \A j \in 1..(k - 1) : str[j] # sep
         IN  <<SubSeq(str, 1, i - 1)>> \o split(SubSeq(str, i + 1, Len(str)), sep)
    ELSE <<str>>

\* String.prototype.trim.
RECURSIVE trim(_)
trim(str) ==
    IF str # <<>> /\ Head(str) = " " THEN trim(Tail(str))
    ELSE IF str # <<>> /\ str[Len(str)] = " " THEN trim(SubSeq(str, 1, Len(str) - 1))
    ELSE str

\* Array.prototype.includes on the history: word is a string, a history
\* element is a one-token identifier.
includes(history, word) == \E i \in DOMAIN history : <<history[i]>> = word

\* Variant: one identifier of the group in history is enough.
is_in_history_some(history, filter_array) ==
    \E object \in Range(split(filter_array, " ")) : includes(history, object)

is_in_history(history, filter_array) ==
    \A object \in Range(split(filter_array, " ")) : includes(history, object)

\* The pass.every(...) of filter().
passEvery(history, pass) ==
    \A and \in Range(pass) : is_in_history(history, trim(and))

\* The stop.forEach(...) of filter(), one group after the other.
RECURSIVE stopForEach(_, _, _)
stopForEach(history, stop, show) ==
    IF stop = <<>> THEN show
    ELSE stopForEach(history, Tail(stop),
                     IF show = TRUE /\ is_in_history(history, trim(Head(stop))) = TRUE
                     THEN FALSE ELSE show)

\* The value of show_step that filter() reaches for one li element.
show_step(history, info) ==
    LET afterPass == IF Has(info, "pass")
                     THEN passEvery(history, split(info.pass, ","))
                     ELSE TRUE
    IN  IF Has(info, "stop")
        THEN stopForEach(history, split(info.stop, ","), afterPass)
        ELSE afterPass

----------------------------------------------------------------------------
(* Methods.  Each maps the machine before the call to the machine after;  *)
(* a call made while an exception propagates does nothing.                 *)

Throw(s) == [s EXCEPT !.threw = TRUE]

\* trackGA(path): the analytics call is the failAt-th of the handler: throws.
trackGA(s, path) ==
    IF s.threw THEN s
    ELSE IF s.failAt = Len(s.tracked) + 1 THEN Throw(s)
    ELSE [s EXCEPT !.tracked = Append(@, path)]

\* hide()/show() of '#' + id + ' #' + step: false when no such element.
setStep(s, step, display) ==
    IF s.threw \/ step \notin Range(s.dom.ids) THEN s
    ELSE [s EXCEPT !.dom.steps[step] = display]

hideStep(s, step) == setStep(s, step, "none")
showStep(s, step) == setStep(s, step, "block")

_saveStorage(s) ==
    IF s.threw THEN s
    ELSE IF ~Has(s.storage, "active") \/ ~Has(s.storage, "history")
         THEN [s EXCEPT !.localStorage = [json |-> "object"], !.saved = TRUE]
         ELSE [s EXCEPT !.localStorage = [json |-> "object", tree |-> s.storage],
                        !.saved = TRUE]

_cleanHTML(s) ==
    IF s.threw THEN s
    ELSE [s EXCEPT !.dom.infos.html = <<>>, !.dom.summary = ""]

\* Variant: the footer is shown as soon as history holds one element.
toggleFooterNonEmpty(s) ==
    IF s.threw THEN s
    ELSE IF Has(s.storage, "history") /\ Len(s.storage.history) > 0
         THEN [s EXCEPT !.dom.footer = "block"]
         ELSE [s EXCEPT !.dom.footer = "none"]

toggleFooter(s) ==
    IF s.threw THEN s
    ELSE IF Has(s.storage, "history") /\ Len(s.storage.history) > 1
         THEN [s EXCEPT !.dom.footer = "block"]
         ELSE [s EXCEPT !.dom.footer = "none"]

RECURSIVE filterFrom(_, _)
filterFrom(s, i) ==
    IF s.threw \/ i > Len(Entries) THEN s
    ELSE LET info  == Entries[i]
             reads == Has(info, "pass") \/ Has(info, "stop")
         IN  IF reads /\ ~Has(s.storage, "history") THEN Throw(s)
             ELSE LET show == IF reads THEN show_step(s.storage.history, info) ELSE TRUE
                  IN  filterFrom([s EXCEPT !.dom.li[i] = IF show THEN "block" ELSE "none"],
                                 i + 1)

filter(s) == filterFrom(s, 1)

HasInfo(el) == el \in StepsWithInfo

\* Variant: the summary is not cleaned before the decision is taken.
_showSummaryUncleaned(s) ==
    IF s.threw THEN s
    ELSE LET c == s
             active == Active(c)
         IN  IF active \notin Range(c.dom.ids) THEN Throw(c)
             ELSE IF active \in StepsWithAnswers /\ active \notin StepsShowSummary THEN c
             ELSE IF ~Has(c.storage, "history") THEN [c EXCEPT !.dom.summary = "none"]
             ELSE LET infoHTML == SelectSeq(c.storage.history, HasInfo)
                      shown == [c EXCEPT !.dom.summary = "block"]
                  IN  IF c.dom.infos.exists
                      THEN [shown EXCEPT !.dom.infos.html = infoHTML]
                      ELSE filter([shown EXCEPT !.dom.infos =
                                       [exists |-> TRUE, html |-> infoHTML]])

_showSummary(s) ==
    IF s.threw THEN s
    ELSE LET c == _cleanHTML(s)
             active == Active(c)
         IN  IF active \notin Range(c.dom.ids) THEN Throw(c)
             ELSE IF active \in StepsWithAnswers /\ active \notin StepsShowSummary THEN c
             ELSE IF ~Has(c.storage, "history") THEN [c EXCEPT !.dom.summary = "none"]
             ELSE LET infoHTML == SelectSeq(c.storage.history, HasInfo)
                      shown == [c EXCEPT !.dom.summary = "block"]
                  IN  IF c.dom.infos.exists
                      THEN [shown EXCEPT !.dom.infos.html = infoHTML]
                      ELSE filter([shown EXCEPT !.dom.infos =
                                       [exists |-> TRUE, html |-> infoHTML]])

\* obj.active = step; a property set to undefined reads as a missing one.
WithActive(obj, step) ==
    IF step = Undefined
    THEN [f \in (DOMAIN obj) \ {"active"} |-> obj[f]]
    ELSE Put(obj, "active", step)

setActive(s, step) ==
    IF s.threw THEN s ELSE [s EXCEPT !.storage = WithActive(@, step)]

setHistory(s, history) ==
    IF s.threw THEN s ELSE [s EXCEPT !.storage = Put(@, "history", history)]

\* Variant: a step already in history is not pushed again.
pushHistoryOnce(s) ==
    IF s.threw THEN s
    ELSE IF ~Has(s.storage, "history") THEN Throw(s)
    ELSE IF Active(s) \in Range(s.storage.history) THEN s
    ELSE [s EXCEPT !.storage = Put(@, "history", Append(s.storage.history, Active(s)))]

\* this.storage.history.push(this.storage.active): a TypeError without history.
pushHistory(s) ==
    IF s.threw THEN s
    ELSE IF ~Has(s.storage, "history") THEN Throw(s)
    ELSE setHistory(s, Append(s.storage.history, Active(s)))

\* Variant: the last element is read but not removed.
popHistoryKept(s) == s

\* this.storage.history.pop()
popHistory(s) ==
    IF s.threw THEN s
    ELSE setHistory(s, SubSeq(s.storage.history, 1, Len(s.storage.history) - 1))

\* Variant: the state is saved before the new step is pushed on the history.
trackAnswerSavedEarly(s, nextStep, datakey) ==
    LET s1 == IF datakey # NoKey THEN trackGA(s, <<Active(s), "/", datakey>>) ELSE s
        s2 == hideStep(s1, Active(s1))
        s3 == showStep(s2, nextStep)
        s4 == trackGA(s3, <<nextStep, "/">>)
        s5 == setActive(s4, nextStep)
        s6 == _saveStorage(s5)
        s7 == pushHistory(s6)
        s8 == _showSummary(s7)
    IN  toggleFooter(s8)

\* trackAttribute() only writes document.cookie, which nothing reads back.
trackAnswer(s, nextStep, datakey) ==
    LET s1 == IF datakey # NoKey THEN trackGA(s, <<Active(s), "/", datakey>>) ELSE s
        s2 == hideStep(s1, Active(s1))
        s3 == showStep(s2, nextStep)
        s4 == trackGA(s3, <<nextStep, "/">>)
        s5 == setActive(s4, nextStep)
        s6 == pushHistory(s5)
        s7 == _saveStorage(s6)
        s8 == _showSummary(s7)
    IN  toggleFooter(s8)

\* Variant: the previous step is read at history[length - 1], the step that
\* is being left.
trackBackButtonSameStep(s) ==
    IF ~Has(s.storage, "history") THEN Throw(s)
    ELSE IF Len(s.storage.history) <= 1 THEN s
    ELSE LET previousStep == s.storage.history[Len(s.storage.history)]
             s1 == hideStep(s, Active(s))
             s2 == showStep(s1, previousStep)
             s3 == trackGA(s2, <<previousStep, "/", "back">>)
             s4 == _cleanHTML(s3)
             s5 == setActive(s4, previousStep)
             s6 == popHistory(s5)
             s7 == _saveStorage(s6)
         IN  toggleFooter(s7)

\* Variant: the guard lets a history of one element through, so
\* history[length - 2] is undefined.
trackBackButtonFromFirst(s) ==
    IF ~Has(s.storage, "history") THEN Throw(s)
    ELSE IF Len(s.storage.history) < 1 THEN s
    ELSE LET previousStep == IF Len(s.storage.history) > 1
                             THEN s.storage.history[Len(s.storage.history) - 1]
                             ELSE Undefined
             s1 == hideStep(s, Active(s))
             s2 == showStep(s1, previousStep)
             s3 == trackGA(s2, <<previousStep, "/", "back">>)
             s4 == _cleanHTML(s3)
             s5 == setActive(s4, previousStep)
             s6 == popHistory(s5)
             s7 == _saveStorage(s6)
         IN  toggleFooter(s7)

\* The hide of the left step's .step__info changes no state modelled here.
trackBackButton(s) ==
    IF ~Has(s.storage, "history") THEN Throw(s)
    ELSE IF Len(s.storage.history) <= 1 THEN s
    ELSE LET previousStep == s.storage.history[Len(s.storage.history) - 1]
             s1 == hideStep(s, Active(s))
             s2 == showStep(s1, previousStep)
             s3 == trackGA(s2, <<previousStep, "/", "back">>)
             s4 == _cleanHTML(s3)
             s5 == setActive(s4, previousStep)
             s6 == popHistory(s5)
             s7 == _saveStorage(s6)
         IN  toggleFooter(s7)

\* Variant: the history is wiped in memory but the save is left out.
trackRestartButtonUnsaved(s) ==
    LET s1 == hideStep(s, Active(s))
        s2 == trackGA(s1, <<Active(s1), "/", "restart">>)
        s3 == setActive(s2, s2.config.first_step)
        s4 == showStep(s3, Active(s3))
        s5 == trackGA(s4, <<Active(s4)>>)
        s6 == setHistory(s5, <<s5.config.first_step>>)
        s8 == toggleFooter(s6)
    IN  _cleanHTML(s8)

trackRestartButton(s) ==
    LET s1 == hideStep(s, Active(s))
        s2 == trackGA(s1, <<Active(s1), "/", "restart">>)
        s3 == setActive(s2, s2.config.first_step)
        s4 == showStep(s3, Active(s3))
        s5 == trackGA(s4, <<Active(s4)>>)
        s6 == setHistory(s5, <<s5.config.first_step>>)
        s7 == _saveStorage(s6)
        s8 == toggleFooter(s7)
    IN  _cleanHTML(s8)

\* Variant: no try/catch around the body of activate().
activateUncaught(s) ==
    LET s1 == trackGA(s, <<Active(s), "/">>)
        s2 == toggleFooter(s1)
        s3 == showStep(s2, Active(s2))
        s4 == _showSummary(s3)
        s5 == filter(s4)
        s6 == IF s5.threw THEN s5
              ELSE [s5 EXCEPT !.dom.bound = TRUE, !.dom.initialized = TRUE]
        s7 == _saveStorage(s6)
    IN  s7

\* The selector '#' + id + '.step' of "Hide all steps" matches no element.
activate(s) ==
    LET s1 == trackGA(s, <<Active(s), "/">>)
        s2 == toggleFooter(s1)
        s3 == showStep(s2, Active(s2))
        s4 == _showSummary(s3)
        s5 == filter(s4)
        s6 == IF s5.threw THEN s5
              ELSE [s5 EXCEPT !.dom.bound = TRUE, !.dom.initialized = TRUE]
        s7 == _saveStorage(s6)
    IN  IF s7.threw THEN [s7 EXCEPT !.threw = FALSE, !.dom.tree = "none"] ELSE s7

_loadSteps(s) == s.dom.ids

\* Variant: the elements that are no steps are dropped, the rest is kept.
_validateHistoryCleaned(s, parsed) ==
    LET history == IF Has(parsed[TreeId], "history") THEN parsed[TreeId].history ELSE <<>>
        steps   == s.config.steps
        IsStep(val) == val \in Range(steps)
        valid   == \A i \in DOMAIN history : IsStep(history[i])
    IN  IF Len(history) > 0 /\ Len(steps) > 0 /\ valid = FALSE
        THEN LET kept    == SelectSeq(history, IsStep)
                 cleaned == [parsed EXCEPT ![TreeId] = Put(@, "history", kept)]
             IN  [m |-> _saveStorage([s EXCEPT !.storage = cleaned]), storage |-> cleaned]
        ELSE [m |-> s, storage |-> parsed]

\* Variant: only the last element of the history is looked up in steps.
_validateHistoryLastOnly(s, parsed) ==
    LET history == IF Has(parsed[TreeId], "history") THEN parsed[TreeId].history ELSE <<>>
        steps   == s.config.steps
        valid   == Len(history) > 0 => history[Len(history)] \in Range(steps)
    IN  IF Len(history) > 0 /\ Len(steps) > 0 /\ valid = FALSE
        THEN LET reset == [parsed EXCEPT ![TreeId] =
                             WithActive(Put(@, "history", <<s.config.first_step>>),
                                        s.config.first_step)]
             IN  [m |-> _saveStorage([s EXCEPT !.storage = reset]), storage |-> reset]
        ELSE [m |-> s, storage |-> parsed]

\* Returns the machine and the (mutated) storage argument.
_validateHistory(s, parsed) ==
    LET history == IF Has(parsed[TreeId], "history") THEN parsed[TreeId].history ELSE <<>>
        steps   == s.config.steps
        valid   == \A i \in DOMAIN history : history[i] \in Range(steps)
    IN  IF Len(history) > 0 /\ Len(steps) > 0 /\ valid = FALSE
        THEN LET reset == [parsed EXCEPT ![TreeId] =
                             WithActive(Put(@, "history", <<s.config.first_step>>),
                                        s.config.first_step)]
             IN  [m |-> _saveStorage([s EXCEPT !.storage = reset]), storage |-> reset]
        ELSE [m |-> s, storage |-> parsed]

\* JSON.parse(localStorage.getItem(id)) || {}
getItem(s) ==
    IF Has(s.localStorage, TreeId)
    THEN [k \in {TreeId} |-> s.localStorage[TreeId]]
    ELSE EmptyObj

\* The machine with this.storage set to the value _loadStorage returns.
_loadStorage(s) ==
    LET parsed == getItem(s)
    IN  IF Has(parsed, TreeId)
        THEN LET v == _validateHistory(s, parsed)
             IN  [v.m EXCEPT !.storage = v.storage[TreeId]]
        ELSE [s EXCEPT !.storage =
                  WithActive([history |-> <<s.config.first_step>>],
                             s.config.first_step)]

\* Lines 15-22 of the constructor.
construct(s) ==
    LET steps == _loadSteps(s)
        first == IF steps # <<>> THEN steps[1] ELSE Undefined
    IN  _loadStorage([s EXCEPT !.config =
                          [id |-> TreeId, first_step |-> first, steps |-> steps]])

----------------------------------------------------------------------------
(* Actions: one per handler *)

NoAnswer == [stage |-> "none"]

Event(op, nextStep, datakey, s) ==
    [op |-> op, nextStep |-> nextStep, datakey |-> datakey,
     threw |-> s.threw, saved |-> s.saved]

Commit(s, op, nextStep, datakey) ==
    /\ config' = s.config
    /\ storage' = s.storage
    /\ localStorage' = s.localStorage
    /\ dom' = s.dom
    /\ tracked' = s.tracked
    /\ last' = Event(op, nextStep, datakey, s)
    /\ old' = Snapshot
    /\ answered' = IF op = "answer"
                   THEN [stage |-> "answer", nextStep |-> nextStep, storage |-> storage]
                   ELSE IF op = "back" /\ answered.stage = "answer"
                   THEN [answered EXCEPT !.stage = "back"]
                   ELSE NoAnswer
    /\ UNCHANGED <<fIn, fOut>>

\* The constructor has returned: the listeners it added can run.  The answer
\* listeners are added even if activate() failed and hid the tree; the back
\* and restart handlers are the ones activate() bound (dom.bound).
Clickable == phase = "ready"

\* new DecisionTree(id) up to the assignment of this.storage.
Load ==
    /\ phase = "boot"
    /\ phase' = "loaded"
    /\ Commit(construct(Machine(0)), "load", "", NoKey)

\* The rest of the constructor: this.activate().
Activate(failAt) ==
    /\ phase = "loaded"
    /\ phase' = "ready"
    /\ Commit(activate(Machine(failAt)), "activate", "", NoKey)

\* A click on a .step__answer with href '#' + nextStep.
Answer(nextStep, datakey, failAt) ==
    /\ Clickable
    /\ Range(dom.ids) \cap StepsWithAnswers # {}
    /\ Has(storage, "history") => Len(storage.history) < MaxHist
    /\ phase' = phase
    /\ Commit(trackAnswer(Machine(failAt), nextStep, datakey), "answer", nextStep, datakey)

\* A click on .step__button--back.
Back(failAt) ==
    /\ Clickable
    /\ dom.bound
    /\ phase' = phase
    /\ Commit(trackBackButton(Machine(failAt)), "back", "", NoKey)

\* A click on .step__button--restart.
Restart(failAt) ==
    /\ Clickable
    /\ dom.bound
    /\ phase' = phase
    /\ Commit(trackRestartButton(Machine(failAt)), "restart", "", NoKey)

\* The page is left and opened again: the object and the document start
\* over, the localStorage item stays.
Reload ==
    /\ phase = "ready"
    /\ phase' = "boot"
    /\ config' = EmptyObj
    /\ storage' = EmptyObj
    /\ dom' = InitDom(dom.ids)
    /\ tracked' = <<>>
    /\ last' = [op |-> "reload", nextStep |-> "", datakey |-> NoKey,
                threw |-> FALSE, saved |-> FALSE]
    /\ old' = Snapshot
    /\ answered' = NoAnswer
    /\ UNCHANGED <<localStorage, fIn, fOut>>

NoFilter == [run |-> FALSE]

InitWith(ids, item) ==
    /\ config = EmptyObj
    /\ storage = EmptyObj
    /\ localStorage = item
    /\ dom = InitDom(ids)
    /\ tracked = <<>>
    /\ phase = "boot"
    /\ last = [op |-> "none", nextStep |-> "", datakey |-> NoKey,
               threw |-> FALSE, saved |-> FALSE]
    /\ old = [storage |-> EmptyObj, localStorage |-> item, dom |-> InitDom(ids)]
    /\ answered = NoAnswer

\* A first visit: nothing is stored under the tree's id.
Init == InitWith(Steps, [json |-> "null"]) /\ fIn = NoFilter /\ fOut = NoFilter

\* Clicks on answers with any href, telemetry calls that return.
Next ==
    \/ Load
    \/ Activate(0)
    \/ \E nextStep \in Targets, datakey \in DataKeys : Answer(nextStep, datakey, 0)
    \/ Back(0)
    \/ Restart(0)
    \/ Reload

Spec == Init /\ [][Next]_vars

\* Clicks on answers whose href names a step of the tree.
NextSteps ==
    \/ Load
    \/ Activate(0)
    \/ \E nextStep \in StepSet, datakey \in DataKeys : Answer(nextStep, datakey, 0)
    \/ Back(0)
    \/ Restart(0)
    \/ Reload

SpecSteps == Init /\ [][NextSteps]_vars

\* The analytics function may throw: a handler makes at most two trackGA
\* calls, and any one of them may be the call that fails (0: none does).
GaCalls == {0, 1, 2}

NextGA ==
    \/ Load
    \/ Activate(0)
    \/ \E nextStep \in StepSet, datakey \in DataKeys, failAt \in GaCalls :
           Answer(nextStep, datakey, failAt)
    \/ \E failAt \in GaCalls : Back(failAt)
    \/ \E failAt \in GaCalls : Restart(failAt)
    \/ Reload

SpecGA == Init /\ [][NextGA]_vars

----------------------------------------------------------------------------
(* Any item may lie under the tree's id when the page opens: one written   *)
(* by an earlier version of the page, by hand, or for another step list.   *)

RECURSIVE SeqsUpTo(_, _)
SeqsUpTo(S, n) ==
    IF n = 0 THEN {<<>>}
    ELSE LET shorter == SeqsUpTo(S, n - 1)
         IN  shorter \cup {Append(q, x) : q \in shorter, x \in S}

StoredRecords(n) ==
    LET histories == SeqsUpTo(Targets, n)
    IN  {[active |-> a, history |-> h] : a \in Targets, h \in histories}
        \cup {[history |-> h] : h \in histories}
        \cup {[active |-> a] : a \in Targets}
        \cup {EmptyObj}

StoredItems(n) ==
    {[json |-> "null"], [json |-> "object"]}
    \cup {[json |-> "object", tree |-> r] : r \in StoredRecords(n)}

InitStore ==
    /\ \E item \in StoredItems(MaxStored) : InitWith(Steps, item)
    /\ fIn = NoFilter
    /\ fOut = NoFilter

NextStore ==
    \/ Load
    \/ Activate(0)
    \/ \E nextStep \in Targets, datakey \in DataKeys : Answer(nextStep, datakey, 0)
    \/ Back(0)
    \/ Restart(0)
    \/ Reload

SpecStore == InitStore /\ [][NextStore]_vars

----------------------------------------------------------------------------
(* A tree without a single .step element: _loadSteps warns and returns [], *)
(* the constructor goes on.  No .step__answer exists to be clicked.        *)

InitEmpty ==
    /\ \E item \in StoredItems(MaxStored) : InitWith(<<>>, item)
    /\ fIn = NoFilter
    /\ fOut = NoFilter

NextEmpty ==
    \/ Load
    \/ Activate(0)
    \/ Reload

SpecEmpty == InitEmpty /\ [][NextEmpty]_vars

----------------------------------------------------------------------------
(* filter() on one li element, in isolation: the history and the element's *)
(* attributes are drawn from the well-formed ones, the decision is kept.   *)

FilterIds == {"a", "b"}

\* The expressions of at most n identifiers: non-empty sequences of
\* AND-groups, an AND-group a non-empty sequence of identifiers.
RECURSIVE ExprsUpTo(_)
ExprsUpTo(n) ==
    IF n = 0 THEN {}
    ELSE UNION { {<<g>>} \cup {<<g>> \o e : e \in ExprsUpTo(n - Len(g))} :
                 g \in SeqsUpTo(FilterIds, n) \ {<<>>} }

\* The attribute value of an expression: identifiers of a group separated
\* by one space, groups separated by a comma.
RECURSIVE JoinTokens(_, _)
JoinTokens(pieces, sep) ==
    IF Len(pieces) = 1 THEN Head(pieces)
    ELSE Head(pieces) \o <<sep>> \o JoinTokens(Tail(pieces), sep)

GroupText(g) == JoinTokens([i \in DOMAIN g |-> <<g[i]>>], " ")
ExprText(e) == JoinTokens([i \in DOMAIN e |-> GroupText(e[i])], ",")

\* The input with history h and the declared expressions; an attribute that
\* is not declared is given as the empty sequence, which is no expression.
FilterInput(h, p, q) ==
    LET bare     == [history |-> h]
        withPass == IF p # <<>> THEN Put(bare, "pass", p) ELSE bare
    IN  IF q # <<>> THEN Put(withPass, "stop", q) ELSE withPass

\* The li element whose attributes spell the drawn expressions.
LiOf(in) ==
    LET none     == EmptyObj
        withPass == IF Has(in, "pass") THEN Put(none, "pass", ExprText(in.pass)) ELSE none
    IN  IF Has(in, "stop") THEN Put(withPass, "stop", ExprText(in.stop)) ELSE withPass

InitFilter ==
    /\ InitWith(Steps, [json |-> "null"])
    /\ \E h \in SeqsUpTo(FilterIds, MaxFilterHist),
          p \in ExprsUpTo(MaxFilterIds) \cup {<<>>},
          q \in ExprsUpTo(MaxFilterIds) \cup {<<>>} : fIn = FilterInput(h, p, q)
    /\ fOut = NoFilter

FilterLi ==
    /\ Has(fIn, "history")
    /\ fOut = NoFilter
    /\ fOut' = [run |-> TRUE, show |-> show_step(fIn.history, LiOf(fIn))]
    /\ UNCHANGED <<config, storage, localStorage, dom, tracked, phase, last, old,
                   answered, fIn>>

SpecFilter == InitFilter /\ [][FilterLi]_vars

----------------------------------------------------------------------------
(* Properties *)

FirstStep == Steps[1]
InitialState == [active |-> FirstStep, history |-> <<FirstStep>>]
LastOf(seq) == seq[Len(seq)]
AllInSteps(seq) == \A i \in DOMAIN seq : seq[i] \in StepSet

\* C1: in every state reached from a first visit by answers that name steps,
\* Back and Restart, history is non-empty, ends with active and holds only
\* steps.
C1_HistoryInvariant ==
    phase # "boot" =>
        /\ Has(storage, "active") /\ Has(storage, "history")
        /\ storage.history # <<>>
        /\ LastOf(storage.history) = storage.active
        /\ AllInSteps(storage.history)

C1_Witness ==
    last.op = "back" /\ Has(storage, "history") /\ storage.history = <<"a", "c", "c">>

\* C2: an answer that names a step makes it the active step and appends it
\* to history as one new last element, also when history already holds it;
\* the earlier elements stay.
C2_AnswerAppends ==
    (last.op = "answer" /\ last.nextStep \in StepSet) =>
        /\ Has(storage, "active") /\ storage.active = last.nextStep
        /\ storage.history = Append(old.storage.history, last.nextStep)

C2_Witness ==
    /\ last.op = "answer"
    /\ last.nextStep = "b"
    /\ old.storage.history = <<"a", "b", "c">>
    /\ storage.history = <<"a", "b", "c", "b">>

\* C3: an answer whose target is no step leaves active, history and the
\* stored item as they were.
C3_UnknownTargetNoOp ==
    (last.op = "answer" /\ last.nextStep \notin StepSet) =>
        /\ storage = old.storage
        /\ localStorage = old.localStorage

\* C4: Back on a history longer than one makes the second-to-last element
\* active and removes the last element only; Back on a history of at most
\* one element changes neither active, history, the stored item nor the
\* footer, and tracks nothing.
C4_Back ==
    (last.op = "back" /\ Has(old.storage, "history")) =>
        LET before == old.storage.history
        IN  IF Len(before) > 1
            THEN /\ Has(storage, "active") /\ storage.active = before[Len(before) - 1]
                 /\ storage.history = SubSeq(before, 1, Len(before) - 1)
            ELSE /\ storage = old.storage
                 /\ localStorage = old.localStorage
                 /\ dom.footer = old.dom.footer
                 /\ tracked = <<>>

C4_Witness ==
    /\ last.op = "back"
    /\ Has(old.storage, "history")
    /\ Len(old.storage.history) = 1
    /\ Has(localStorage, TreeId)

\* C5: Restart, from whatever active and history, leaves active = first step
\* and history = [first step] in memory and in the stored item, and a second
\* Restart right after it changes none of active, history, stored item and
\* footer.
C5_Restart ==
    last.op = "restart" =>
        /\ storage = InitialState
        /\ localStorage = [json |-> "object", tree |-> InitialState]
        /\ LET again == trackRestartButton(Machine(0))
           IN  /\ again.storage = storage
               /\ again.localStorage = localStorage
               /\ again.dom.footer = dom.footer

C5_Witness ==
    /\ last.op = "restart"
    /\ Has(old.storage, "history")
    /\ Len(old.storage.history) > 2
    /\ Active(old) # FirstStep
    /\ old.dom.footer = "block"

\* C6: load returns the initial state when nothing is stored for the tree
\* and when the stored history holds an element that is no step (never the
\* history with only those elements removed), and returns the stored record
\* as it is when every element of its history is a step.
C6_Reconciliation ==
    last.op = "load" =>
        LET item == old.localStorage
        IN  IF ~Has(item, TreeId) THEN storage = InitialState
            ELSE IF ~Has(item[TreeId], "history") THEN TRUE
            ELSE IF AllInSteps(item[TreeId].history) THEN storage = item[TreeId]
            ELSE storage = InitialState

C6_Witness ==
    /\ last.op = "load"
    /\ Has(old.localStorage, TreeId)
    /\ old.localStorage[TreeId] = [active |-> "b", history |-> <<"x", "b">>]
    /\ storage = InitialState

\* C7: whatever record is stored, the state load returns has a non-empty
\* history, active equal to its last element, and active a step.
C7_LoadedStateValid ==
    last.op = "load" =>
        /\ Has(storage, "active") /\ Has(storage, "history")
        /\ storage.history # <<>>
        /\ LastOf(storage.history) = storage.active
        /\ storage.active \in StepSet

\* C8: a save of a state without active, without history or with an empty
\* history leaves no record for the tree in the stored item.
C8_SaveClearsEmpty ==
    (last.saved /\ last.op # "load"
       /\ (\/ ~Has(storage, "active")
           \/ ~Has(storage, "history")
           \/ storage.history = <<>>)) =>
        ~Has(localStorage, TreeId)

GroupIn(g, history) == Range(g) \subseteq Range(history)

\* C9: for well-formed expressions an entry is shown iff (no pass expression
\* or every pass group has all its identifiers in history) and no stop group
\* has all its identifiers in history, whatever the order and repetition of
\* history.
C9_FilterRule ==
    (fOut # NoFilter) =>
        LET passOk   == Has(fIn, "pass") =>
                            \A i \in DOMAIN fIn.pass : GroupIn(fIn.pass[i], fIn.history)
            stopHits == Has(fIn, "stop") /\
                            \E i \in DOMAIN fIn.stop : GroupIn(fIn.stop[i], fIn.history)
        IN  fOut.show = (passOk /\ ~stopHits)

C9_Witness ==
    /\ fOut # NoFilter
    /\ fIn = [history |-> <<"b", "a">>, pass |-> << <<"a", "b">> >>,
              stop |-> << <<"a">>, <<"b">> >>]
    /\ fOut.show = FALSE

\* C10: once the tree is activated, and after every answer that names a
\* step, Back and Restart, the footer is shown iff history is longer than
\* one.
C10_Footer ==
    phase = "ready" =>
        /\ dom.footer \in {"block", "none"}
        /\ dom.footer = "block" <=> (Has(storage, "history") /\ Len(storage.history) > 1)

C10_Witness ==
    /\ last.op = "restart"
    /\ old.dom.footer = "block"
    /\ dom.footer = "none"

\* A step is terminal when it asks no further question or carries
\* data-show-summary.
Terminal(step) == step \notin StepsWithAnswers \/ step \in StepsShowSummary

\* C11: once the tree is activated and after every answer that names a step,
\* the summary is displayed iff the active step has no answers or is flagged
\* to show the summary; landing on a step with answers and no flag leaves it
\* not displayed, also when it was displayed before.
C11_SummaryOnAnswer ==
    (phase = "ready" /\ last.op \in {"activate", "answer"}) =>
        (dom.summary = "block" <=> Terminal(Active([storage |-> storage])))

C11_Witness ==
    /\ last.op = "answer"
    /\ old.dom.summary = "block"
    /\ dom.summary # "block"
    /\ storage.active = "a"

\* C12: every path handed to the telemetry call has one of the four forms
\* <stepId>/, <stepId>/<dataKey>, <stepId>/back, <stepId>/restart, and the
\* handler that displays a step (activation, Answer, Restart) hands over
\* <stepId>/ for that step.
C12_TrackedPaths ==
    LET PathForm(path) ==
            /\ Len(path) \in {2, 3}
            /\ path[1] \in StepSet
            /\ path[2] = "/"
            /\ Len(path) = 3 =>
                   path[3] \in (DataKeys \ {NoKey}) \cup {"back", "restart"}
    IN  /\ \A i \in DOMAIN tracked : PathForm(tracked[i])
        /\ (phase = "ready" /\ last.op \in {"activate", "answer", "restart"}) =>
               \E i \in DOMAIN tracked : tracked[i] = <<storage.active, "/">>

\* C13: a telemetry call that throws during Answer, Back or Restart leaves
\* active, history and the persisted record as the same handler leaves them
\* when the call returns; in particular active stays the last element of
\* history and the persisted record stays equal to the in-memory state.
C13_TelemetryFailureHarmless ==
    (phase = "ready" /\ last.op \in {"answer", "back", "restart"}) =>
        LET before == [Machine(0) EXCEPT !.storage = old.storage,
                                         !.localStorage = old.localStorage,
                                         !.dom = old.dom]
            ok == CASE last.op = "answer" ->
                           trackAnswer(before, last.nextStep, last.datakey)
                    [] last.op = "back" -> trackBackButton(before)
                    [] OTHER -> trackRestartButton(before)
        IN  /\ storage = ok.storage
            /\ localStorage = ok.localStorage
            /\ storage.active = LastOf(storage.history)
            /\ localStorage = [json |-> "object", tree |-> storage]

\* C14: with an empty step list the tree does not initialize and is hidden
\* once the constructor has returned, construction writes nothing under the
\* tree's key, and no Answer, Back or Restart event can take place.
C14_EmptyStepList ==
    /\ (phase # "boot" /\ dom.ids = <<>>) =>
           /\ config.steps = <<>>
           /\ localStorage = old.localStorage
    /\ (phase = "ready" /\ dom.ids = <<>>) =>
           /\ dom.tree = "none"
           /\ ~dom.initialized
           /\ ~ENABLED (\E nextStep \in Targets, datakey \in DataKeys :
                            Answer(nextStep, datakey, 0))
           /\ ~ENABLED Back(0)
           /\ ~ENABLED Restart(0)

C14_Witness ==
    /\ phase = "ready"
    /\ last.op = "activate"
    /\ dom.ids = <<>>
    /\ dom.tree = "none"
    /\ localStorage = [json |-> "null"]

\* C15: after every Answer, Back and Restart the displayed visibility of each
\* summary entry is the one the filter rule gives for the history of the
\* resulting state.
C15_EntriesFollowHistory ==
    (phase = "ready" /\ last.op \in {"answer", "back", "restart"}) =>
        \A i \in DOMAIN Entries :
            dom.li[i] = "block" <=> show_step(storage.history, Entries[i])

\* C16: after a Back that moved and after a Restart the summary is displayed
\* iff the resulting active step has no answers or is flagged to show it.
C16_SummaryOnBackRestart ==
    (phase = "ready" /\ last.op \in {"back", "restart"} /\ last.saved) =>
        (dom.summary = "block" <=> Terminal(storage.active))

\* C17: when load discards a persisted state whose history holds an element
\* that is no step, the initial state is stored under the tree's key at the
\* moment load returns.
C17_ResetPersistedAtLoad ==
    (/\ phase = "loaded"
     /\ Has(old.localStorage, TreeId)
     /\ Has(old.localStorage[TreeId], "history")
     /\ ~AllInSteps(old.localStorage[TreeId].history)) =>
        /\ Has(localStorage, TreeId)
        /\ localStorage[TreeId] = InitialState

\* C18: once activation has completed, and after every Answer that names a
\* step, every Back and every Restart, the record persisted under the tree's
\* key is the in-memory active and history, and a new load over the same
\* steps returns that active and that history.
C18_PersistedEqualsMemory ==
    phase = "ready" =>
        /\ localStorage = [json |-> "object", tree |-> storage]
        /\ construct([Machine(0) EXCEPT !.config = EmptyObj,
                                        !.storage = EmptyObj,
                                        !.dom = InitDom(dom.ids)]).storage
               = [active |-> storage.active, history |-> storage.history]

C18_Witness ==
    /\ phase = "ready"
    /\ last.op = "back"
    /\ Len(old.storage.history) > 2
    /\ old.localStorage # localStorage
    /\ localStorage[TreeId] = storage

\* C19: an Answer that names a step, followed immediately by Back, restores
\* active and the length of history to their values before the Answer.
C19_AnswerThenBack ==
    (answered.stage = "back" /\ answered.nextStep \in StepSet) =>
        /\ storage.active = answered.storage.active
        /\ Len(storage.history) = Len(answered.storage.history)

C19_Witness ==
    /\ answered.stage = "back"
    /\ answered.nextStep = "c"
    /\ answered.storage = [active |-> "b", history |-> <<"a", "b">>]
    /\ old.storage = [active |-> "c", history |-> <<"a", "b", "c">>]
    /\ storage = [active |-> "b", history |-> <<"a", "b">>]

\* C20: after any sequence of Answer (whatever the target), Back and Restart
\* events whose telemetry calls return, a new load returns a state whose
\* history is non-empty, holds only steps and ends with active; if the
\* persisted history held a target that is no step, that state is the
\* initial state.
C20_ReloadHeals ==
    (phase = "loaded" /\ Has(old.localStorage, TreeId)) =>
        /\ Has(storage, "active")
        /\ Has(storage, "history")
        /\ Len(storage.history) >= 1
        /\ AllInSteps(storage.history)
        /\ LastOf(storage.history) = storage.active
        /\ (/\ Has(old.localStorage[TreeId], "history")
            /\ ~AllInSteps(old.localStorage[TreeId].history)) =>
               storage = InitialState

C20_Witness ==
    /\ phase = "loaded"
    /\ Has(old.localStorage, TreeId)
    /\ old.localStorage[TreeId] = [active |-> "b", history |-> <<"a", Ghost, "b">>]
    /\ storage = InitialState

====
